---- MODULE Spec2Model ----
(***************************************************************************)
(* Model of the football-intelligence acquisition pipeline:                *)
(*   - the staleness scheduler (db_update_scheduler.py, UpdateScheduler),  *)
(*   - the per-team refresh of the FBref scraper                           *)
(*     (scrapers/fbref_scraper.py, update_team_in_database),               *)
(*   - the three-tier fetch chain of the SofaScore scraper                 *)
(*     (scripts/scrapers/sofascore_scraper.py),                            *)
(*   - the match_id computation of both FBref normalisers,                 *)
(*   - update_team_in_database step by step, with the tables team and      *)
(*     match and the transaction of insert_matches.                        *)
(* Time is counted in whole hours.                                         *)
(***************************************************************************)
EXTENDS Integers, Sequences, FiniteSets, TLC

(***************************************************************************)
(* Bounds of the model                                                     *)
(***************************************************************************)
NumTeams == 3
MaxCap == 3
MaxRetriesCfg == 2
MaxThreshold == 2
MaxCycles == 2
NumDates == 2
MaxRecords == 2
MaxCalls == 2
MaxRows == 2
MaxRewrites == 1       \* runs of update_popular_teams that change the list
MaxListChanges == 1    \* teams that enter or leave the list in one run

(***************************************************************************)
(* Values                                                                  *)
(***************************************************************************)
\* None / SQL NULL for a timestamp or an hour count (real values are >= 0)
NULL == 0 - 1
\* Clock value of the first cycle
StartHour == 48
\* Hours since the last scrape that a stored team may have at the start
Ages == {2, 10, 12, 30}
\* Values of scheduler.update_interval
Intervals == {5, 24}
\* Values of scheduler.popular_teams_weight
Weights == {1, 2, 3}
\* Hours that pass between two update checks of the service
TickHours == {1, 24}
\* Freshness limit hard-coded in update_team_in_database
FreshHours == 24

Teams == 1..NumTeams
\* the three teams of the worked example: the first three team ids
ExampleTeams == <<1, 2, 3>>
TeamA == ExampleTeams[1]
TeamB == ExampleTeams[2]
TeamC == ExampleTeams[3]

VARIABLES
    config,          \* self.config['scheduler'] and ['notifications']
    last_scrape,     \* team -> MAX(scrape_date) of its match rows, or NULL
    is_popular_team, \* team -> listed in popular_teams.json
    now,             \* datetime.now(), in hours
    db_up,           \* result of the last self.db.connect() of get_teams_to_update
    candidates,      \* teams_to_update after the loop of get_teams_to_update
    teams_to_update, \* list returned by get_teams_to_update
    pc,              \* position of run_update_cycle
    idx,             \* index i of the primary pass
    failures,        \* self.failures (retry queue)
    retry_local,     \* local copy `failures` inside process_failed_updates
    update_log,      \* self.update_log (entries not yet saved to update_log.json)
    last_update,     \* self.last_update
    success_count,
    failure_count,
    cycle,           \* number of the running cycle
    cycle_log,       \* entries appended to the update log during the running cycle
    cycle_notified,  \* notifications sent during the running cycle
    attempts         \* team -> outcomes of its fetch attempts in this cycle

schedVars == <<config, last_scrape, is_popular_team, now, db_up, candidates,
               teams_to_update, pc, idx, failures, retry_local, update_log,
               last_update, success_count, failure_count, cycle,
               cycle_log, cycle_notified, attempts>>

VARIABLES
    fbref_class,     \* which FBrefScraper class line 444 imports
    session_ok,      \* outcome of initialize_browser_session
    api_result,      \* date -> what fetch_events_via_api returns for it
    browser_result,  \* date -> what fetch_events_via_browser returns for it
    alt_result,      \* date -> what the alternate source returns for it
    chain_pc,        \* position of fetch_matches_for_date_range
    date_idx,        \* index of current_date in date_list
    cookies,         \* self.cookies is filled
    events,          \* local events
    source,          \* local source
    matches,         \* local matches
    tier_calls,      \* date -> tiers invoked for it, in the order of invocation
    all_matches_by_date

chainVars == <<fbref_class, session_ok, api_result, browser_result, alt_result,
               chain_pc, date_idx, cookies, events, source, matches, tier_calls,
               all_matches_by_date>>

VARIABLES
    schedule,        \* the fixtures that are really played
    normalized       \* canonical records produced so far

idVars == <<schedule, normalized>>

VARIABLES
    mode,            \* --mode of main: "once" or "service"
    exit_code        \* value main returns to sys.exit, NULL while it runs

runVars == <<mode, exit_code>>

VARIABLES
    backoff_waits,   \* time.sleep(retry_delay) calls of the running cycle
    carried,         \* the candidates the last cycle left without new rows,
                     \* each with the popularity it was selected with
    rewrites         \* runs of update_popular_teams that changed the list

pauseVars == <<backoff_waits, carried, rewrites>>

VARIABLES
    routine,         \* the entry point whose requests are followed
    rq_class,        \* which FBrefScraper class the entry point constructs
    rq_pc,           \* position in the entry point
    rq_date,         \* index of current_date in date_list
    endpoint,        \* index of the API endpoint being tried
    waited,          \* a delay has been slept since the last request
    contexts,        \* browser sessions that have delivered cookies
    wire             \* requests sent for the current date, oldest first

wireVars == <<routine, rq_class, rq_pc, rq_date, endpoint, waited, contexts,
              wire>>

VARIABLES
    st_pc,           \* position of update_team_in_database
    st_team,         \* team_name of the running call
    st_force,        \* force_update of the running call
    st_now,          \* datetime.now(), in hours
    known_teams,     \* team_name values of the rows of table team
    frame,           \* matches_df returned by scrape_team_matches; the field
                     \* cells of a row keeps the cells of the page it was read from
    match_data,      \* the tuples built for insert_matches
    txn,             \* rows written by the open transaction, not yet committed
    match_table,     \* committed rows of table match
    handed,          \* the match_data passed to insert_matches by the running call
    st_result,       \* return value of the call
    fetches,         \* teams whose match log was requested, in order
    interrupted,     \* a KeyboardInterrupt was delivered to the process
    calls            \* calls of update_team_in_database that returned

storeVars == <<st_pc, st_team, st_force, st_now, known_teams, frame, match_data,
               txn, match_table, handed, st_result, fetches, interrupted,
               calls>>

vars == <<schedVars, chainVars, idVars, runVars, storeVars, pauseVars,
          wireVars>>

(***************************************************************************)
(* get_teams_to_update                                                     *)
(***************************************************************************)
Range(s) == {s[i] : i \in 1..Len(s)}

Front(s) == SubSeq(s, 1, Len(s) - 1)

Last(s) == s[Len(s)]

\* All orders in which the query may return the team rows:
\* ORDER BY last_update ASC NULLS FIRST, rows with equal last_update in any order
QueryOrders(ls) ==
    {q \in [1..NumTeams -> Teams] :
        /\ \A i, j \in 1..NumTeams : i # j => q[i] # q[j]
        /\ \A i, j \in 1..NumTeams : i < j => ls[q[i]] <= ls[q[j]]}

HoursSinceUpdate(lu, clock) == IF lu = NULL THEN NULL ELSE clock - lu

\* variant: the interval of a popular team is divided with floor division
IntervalExceededFloorDiv(hours, cfg, popular) ==
    IF popular
    THEN hours >= cfg.update_interval \div cfg.popular_teams_weight
    ELSE hours >= cfg.update_interval

\* hours_since_update >= update_interval / popular_teams_weight, the division
\* being Python's true division: h >= u / w  <=>  h * w >= u  for w > 0
IntervalExceeded(hours, cfg, popular) ==
    IF popular
    THEN hours * cfg.popular_teams_weight >= cfg.update_interval
    ELSE hours >= cfg.update_interval

\* variant: popularity does not shorten the interval
NeedsUpdateIgnoringPopularity(lu, hours, cfg, popular) ==
    \/ lu = NULL
    \/ hours = NULL
    \/ hours >= cfg.update_interval

\* variant: a team without a scrape date is treated like any other team
NeedsUpdateWithoutNullCase(lu, hours, cfg, popular) ==
    /\ lu # NULL
    /\ hours # NULL
    /\ IntervalExceeded(hours, cfg, popular)

NeedsUpdate(lu, hours, cfg, popular) ==
    \/ lu = NULL
    \/ hours = NULL
    \/ IntervalExceeded(hours, cfg, popular)

TeamEntry(t, ls, pop, clock) ==
    [team_id |-> t,
     last_update |-> ls[t],
     hours_since_update |-> HoursSinceUpdate(ls[t], clock),
     is_popular |-> pop[t]]

\* the loop over the rows: keeps the rows that need an update, in row order
RECURSIVE BuildCandidates(_, _, _, _, _)
BuildCandidates(rows, ls, pop, clock, cfg) ==
    IF rows = <<>> THEN <<>>
    ELSE LET e == TeamEntry(Head(rows), ls, pop, clock)
             rest == BuildCandidates(Tail(rows), ls, pop, clock, cfg)
         IN IF NeedsUpdate(e.last_update, e.hours_since_update, cfg, e.is_popular)
            THEN <<e>> \o rest
            ELSE rest

\* variant: the staleness component of the key is not negated
SortKeyAscendingHours(e) ==
    << IF e.last_update # NULL THEN 1 ELSE 0,
       IF ~e.is_popular THEN 1 ELSE 0,
       IF e.hours_since_update = NULL THEN 0 - 1 ELSE e.hours_since_update >>

\* the sort key of a candidate, booleans as 0 / 1
SortKey(e) ==
    << IF e.last_update # NULL THEN 1 ELSE 0,
       IF ~e.is_popular THEN 1 ELSE 0,
       IF e.hours_since_update = NULL THEN 0 - 1 ELSE 0 - e.hours_since_update >>

KeyLess(k1, k2) ==
    \/ k1[1] < k2[1]
    \/ k1[1] = k2[1] /\ k1[2] < k2[2]
    \/ k1[1] = k2[1] /\ k1[2] = k2[2] /\ k1[3] < k2[3]

RECURSIVE InsertByKey(_, _)
InsertByKey(e, s) ==
    IF s = <<>> THEN <<e>>
    ELSE IF KeyLess(SortKey(e), SortKey(Head(s))) THEN <<e>> \o s
    ELSE <<Head(s)>> \o InsertByKey(e, Tail(s))

\* list.sort(key=...): stable
RECURSIVE SortByPriority(_)
SortByPriority(s) ==
    IF s = <<>> THEN <<>>
    ELSE InsertByKey(Last(s), SortByPriority(Front(s)))

\* variant: the slice keeps one entry too many
ApplyLimitOffByOne(s, max_teams) ==
    IF max_teams > 0 /\ Len(s) > max_teams THEN SubSeq(s, 1, max_teams + 1) ELSE s

ApplyLimit(s, max_teams) ==
    IF max_teams > 0 /\ Len(s) > max_teams THEN SubSeq(s, 1, max_teams) ELSE s

(***************************************************************************)
(* update_team_in_database (scrapers/fbref_scraper.py)                     *)
(***************************************************************************)
\* What the database and the source do during one call:
\*   db      "down"  self.db.connect() fails
\*           "up"    the connection works
\*   site    "rows"  scrape_team_matches returns match rows
\*           "none"  it returns an empty frame (no URL, HTTP error, parse error)
\*   insert  TRUE    insert_matches stores the rows
\*           FALSE   execute_values fails and rolls back
\*   closes  TRUE    self.db.disconnect() in the finally block returns
\*           FALSE   it raises; this is the one statement outside the
\*                   function's own exception handler
CallEnvs ==
    {[db |-> "down", site |-> "none", insert |-> FALSE, closes |-> TRUE]}
    \cup [db : {"up"}, site : {"rows", "none"}, insert : BOOLEAN, closes : BOOLEAN]

\* the freshness check of lines 726-741
SkippedAsFresh(t, force_update, ls, clock) ==
    /\ ~force_update
    /\ ls[t] # NULL
    /\ clock - ls[t] < FreshHours

\* the rows of the team are written: its MAX(scrape_date) becomes now
StoresRows(t, force_update, env, ls, clock) ==
    /\ env.db = "up"
    /\ ~SkippedAsFresh(t, force_update, ls, clock)
    /\ env.site = "rows"
    /\ env.insert

\* outcome seen by the caller: "count" (match_count > 0), "zero" (0 returned
\* for a failure), "skipped" (0 returned by the freshness check), "raise"
UpdateTeamInDatabase(t, force_update, env, ls, clock) ==
    IF env.db = "down" THEN "zero"
    ELSE IF ~env.closes THEN "raise"
    ELSE IF SkippedAsFresh(t, force_update, ls, clock) THEN "skipped"
    ELSE IF StoresRows(t, force_update, env, ls, clock) THEN "count"
    ELSE "zero"

\* variant: every call that reaches the store renews the timestamp
LastScrapeRenewedByAnyCall(t, force_update, env, ls, clock) ==
    IF env.db = "up" THEN [ls EXCEPT ![t] = clock] ELSE ls

LastScrapeAfter(t, force_update, env, ls, clock) ==
    IF StoresRows(t, force_update, env, ls, clock)
    THEN [ls EXCEPT ![t] = clock]
    ELSE ls

(***************************************************************************)
(* Scheduler helpers                                                       *)
(***************************************************************************)
LogEntry(t, status, retries) == [team |-> t, status |-> status, retries |-> retries]

\* send_notification: returns at once when notifications are disabled
Sent(cfg) == IF cfg.notifications_enabled THEN 1 ELSE 0

\* the notification block at the end of run_update_cycle (lines 480-495)
CycleNotification(cfg, failed) ==
    IF ~cfg.notifications_enabled THEN 0
    ELSE IF failed > 0 /\ cfg.send_on_error THEN 1
    ELSE IF cfg.send_on_success THEN 1
    ELSE 0

\* the hour of the day at time `clock`
HourOfDay(clock) == clock % 24

\* variant: the window is taken to lie within one day
IsWithinSameDayWindow(clock, cfg) ==
    /\ cfg.update_window_start <= HourOfDay(clock)
    /\ HourOfDay(clock) <= cfg.update_window_end

\* is_within_update_window, lines 562-577
IsWithinUpdateWindow(clock, cfg) ==
    IF cfg.update_window_start < cfg.update_window_end
    THEN /\ cfg.update_window_start <= HourOfDay(clock)
         /\ HourOfDay(clock) <= cfg.update_window_end
    ELSE \/ HourOfDay(clock) >= cfg.update_window_start
         \/ HourOfDay(clock) <= cfg.update_window_end

\* the teams of a candidate list whose rows were not renewed at `clock`,
\* the time of the cycle
Unrefreshed(cands, ls, clock) ==
    {[team_id |-> cands[i].team_id, is_popular |-> cands[i].is_popular] :
        i \in {j \in 1..Len(cands) : ls[cands[j].team_id] # clock}}

\* one retry more than configured
WithinRetryLimitPlusOne(retries, cfg) == retries <= cfg.max_retries + 1

\* line 298: the retry numbered `retries` is made only up to max_retries
WithinRetryLimit(retries, cfg) == retries <= cfg.max_retries

\* no wait before the retries
RetryDelaySkipped(cfg, queue) == 0

\* lines 441-445: time.sleep(retry_delay * 60) is called once, and only when
\* there is something to retry
RetryDelaySleeps(cfg, queue) ==
    IF queue # <<>> /\ cfg.retry_failed THEN 1 ELSE 0

(***************************************************************************)
(* Initial states                                                          *)
(***************************************************************************)
DefaultConfig ==
    [update_interval |-> 24, popular_teams_weight |-> 2,
     max_teams_per_update |-> 0, retry_failed |-> TRUE, max_retries |-> 3,
     error_threshold |-> 5, notifications_enabled |-> FALSE,
     send_on_error |-> TRUE, send_on_success |-> FALSE,
     update_window_start |-> 1, update_window_end |-> 5]

\* the fetch chain is not running
InitChainIdle ==
    /\ fbref_class = "db_scraper"
    /\ session_ok = FALSE
    /\ api_result = [d \in 1..NumDates |-> "none"]
    /\ browser_result = [d \in 1..NumDates |-> "none"]
    /\ alt_result = [d \in 1..NumDates |-> "none"]
    /\ chain_pc = "off"
    /\ date_idx = 0
    /\ cookies = FALSE
    /\ events = "none"
    /\ source = "none"
    /\ matches = <<>>
    /\ tier_calls = [d \in 1..NumDates |-> <<>>]
    /\ all_matches_by_date = [d \in 1..NumDates |-> <<>>]

\* no normaliser is running
InitIdIdle ==
    /\ schedule = {}
    /\ normalized = {}

\* no call of update_team_in_database is running, the tables are empty
InitStoreIdle ==
    /\ st_pc = "off"
    /\ st_team = ""
    /\ st_force = FALSE
    /\ st_now = StartHour
    /\ known_teams = {}
    /\ frame = <<>>
    /\ match_data = <<>>
    /\ txn = <<>>
    /\ match_table = {}
    /\ handed = <<>>
    /\ st_result = NULL
    /\ fetches = <<>>
    /\ interrupted = FALSE
    /\ calls = 0

\* the scheduler is not running
InitWireIdle ==
    /\ routine = "none"
    /\ rq_class = "db_scraper"
    /\ rq_pc = "off"
    /\ rq_date = 0
    /\ endpoint = 0
    /\ waited = FALSE
    /\ contexts = 0
    /\ wire = <<>>

InitSchedIdle ==
    /\ mode = "once"
    /\ backoff_waits = 0
    /\ carried = {}
    /\ rewrites = 0
    /\ exit_code = NULL
    /\ config = DefaultConfig
    /\ last_scrape = [t \in Teams |-> NULL]
    /\ is_popular_team = [t \in Teams |-> FALSE]
    /\ now = StartHour
    /\ db_up = TRUE
    /\ candidates = <<>>
    /\ teams_to_update = <<>>
    /\ pc = "off"
    /\ idx = 0
    /\ failures = <<>>
    /\ retry_local = <<>>
    /\ update_log = <<>>
    /\ last_update = NULL
    /\ success_count = 0
    /\ failure_count = 0
    /\ cycle = 1
    /\ cycle_log = <<>>
    /\ cycle_notified = 0
    /\ attempts = [t \in Teams |-> <<>>]

InitCommon ==
    /\ InitChainIdle
    /\ InitWireIdle
    /\ InitIdIdle
    /\ InitStoreIdle
    /\ exit_code = NULL
    /\ backoff_waits = 0
    /\ carried = {}
    /\ rewrites = 0
    /\ now = StartHour
    /\ db_up = TRUE
    /\ candidates = <<>>
    /\ teams_to_update = <<>>
    /\ idx = 0
    /\ failures = <<>>
    /\ retry_local = <<>>
    /\ update_log = <<>>
    /\ last_update = NULL
    /\ success_count = 0
    /\ failure_count = 0
    /\ cycle_log = <<>>
    /\ cycle_notified = 0
    /\ attempts = [t \in Teams |-> <<>>]

\* any store, any selection configuration
InitSelect ==
    /\ InitCommon
    /\ mode = "once"
    /\ pc = "idle"
    /\ cycle = 1
    /\ last_scrape \in [Teams -> {NULL} \cup {StartHour - a : a \in Ages}]
    /\ is_popular_team \in [Teams -> BOOLEAN]
    /\ \E u \in Intervals, w \in Weights, m \in 0..MaxCap :
          config = [DefaultConfig EXCEPT !.update_interval = u,
                                         !.popular_teams_weight = w,
                                         !.max_teams_per_update = m]

\* update windows as <<start hour, end hour>>: the default 01:00-05:00 and
\* one that spans midnight
DefaultWindow == <<DefaultConfig.update_window_start, DefaultConfig.update_window_end>>

UpdateWindows == {DefaultWindow, <<23, 1>>}

\* What a stored team may look like at the start of the scheduler runs
TeamStates ==
    << [ls |-> NULL, pop |-> FALSE],
       [ls |-> StartHour - 30, pop |-> FALSE],
       [ls |-> StartHour - 12, pop |-> TRUE],
       [ls |-> StartHour - 2, pop |-> FALSE] >>

\* notifications disabled, or enabled with any combination of the two switches
NotificationConfigs ==
    {[enabled |-> FALSE, on_error |-> TRUE, on_success |-> FALSE]}
    \cup [enabled : {TRUE}, on_error : BOOLEAN, on_success : BOOLEAN]

\* retries switched off, or switched on with any max_retries
RetryConfigs ==
    {[retry_failed |-> FALSE, max_retries |-> MaxRetriesCfg]}
    \cup [retry_failed : {TRUE}, max_retries : 0..MaxRetriesCfg]

\* a few stores (team ids are interchangeable, so one numbering of each store
\* is enough), any retry and notification configuration
Init ==
    /\ InitCommon
    /\ mode \in {"once", "service"}
    /\ pc = IF mode = "once" THEN "idle" ELSE "started"
    /\ cycle = IF mode = "once" THEN 1 ELSE 0
    /\ \E st \in [Teams -> 1..Len(TeamStates)] :
          /\ \A t, u \in Teams : t < u => st[t] <= st[u]
          /\ last_scrape = [t \in Teams |-> TeamStates[st[t]].ls]
          /\ is_popular_team = [t \in Teams |-> TeamStates[st[t]].pop]
    /\ \E m \in 0..1, r \in RetryConfigs, et \in 1..MaxThreshold,
          n \in NotificationConfigs,
          w \in IF mode = "once" THEN {DefaultWindow} ELSE UpdateWindows :
          config = [DefaultConfig EXCEPT !.update_window_start = w[1],
                                         !.update_window_end = w[2],
                                         !.max_teams_per_update = m,
                                         !.retry_failed = r.retry_failed,
                                         !.max_retries = r.max_retries,
                                         !.error_threshold = et,
                                         !.notifications_enabled = n.enabled,
                                         !.send_on_error = n.on_error,
                                         !.send_on_success = n.on_success]

(***************************************************************************)
(* Actions                                                                 *)
(***************************************************************************)
\* run_update_cycle, line 364: teams_to_update = self.get_teams_to_update()
CallGetTeamsToUpdate ==
    /\ UNCHANGED <<wireVars, chainVars, idVars, storeVars, runVars, pauseVars>>
    /\ pc = "idle"
    /\ \E up \in BOOLEAN :
          /\ db_up' = up
          /\ IF ~up
             THEN /\ candidates' = <<>>
                  /\ teams_to_update' = <<>>
             ELSE \E q \in QueryOrders(last_scrape) :
                     LET c == BuildCandidates(q, last_scrape, is_popular_team, now, config)
                     IN /\ candidates' = c
                        /\ teams_to_update' =
                              ApplyLimit(SortByPriority(c), config.max_teams_per_update)
    /\ pc' = "selected"
    /\ UNCHANGED <<config, last_scrape, is_popular_team, now, idx, failures,
                   retry_local, update_log, last_update, success_count,
                   failure_count, cycle, cycle_log, cycle_notified, attempts>>

NextSelect == CallGetTeamsToUpdate

SpecSelect == InitSelect /\ [][NextSelect]_vars

\* run_update_cycle, lines 366-374
BeginPass ==
    /\ UNCHANGED <<wireVars, chainVars, idVars, storeVars, runVars, pauseVars>>
    /\ pc = "selected"
    /\ IF teams_to_update = <<>>
       THEN /\ last_update' = now
            /\ pc' = "done"
            /\ idx' = idx
       ELSE /\ last_update' = last_update
            /\ pc' = "primary"
            /\ idx' = 1
    /\ success_count' = 0
    /\ failure_count' = 0
    /\ UNCHANGED <<config, last_scrape, is_popular_team, now, db_up, candidates,
                   teams_to_update, failures, retry_local, update_log, cycle, cycle_log, cycle_notified, attempts>>

\* one iteration of the primary pass, lines 376-438
UpdateTeam ==
    /\ UNCHANGED <<wireVars, chainVars, idVars, storeVars, runVars, pauseVars>>
    /\ pc = "primary"
    /\ \E env \in CallEnvs :
          LET t == teams_to_update[idx].team_id
              r == UpdateTeamInDatabase(t, FALSE, env, last_scrape, now)
              status == IF r = "count" THEN "success"
                        ELSE IF r = "raise" THEN "failed" ELSE "empty"
              e == LogEntry(t, status, NULL)
          IN /\ last_scrape' = LastScrapeAfter(t, FALSE, env, last_scrape, now)
             /\ attempts' = [attempts EXCEPT ![t] = Append(@, r)]
             /\ success_count' = IF r = "count" THEN success_count + 1 ELSE success_count
             /\ failure_count' = IF r = "raise" THEN failure_count + 1 ELSE failure_count
             /\ failures' = IF r = "raise"
                            THEN Append(failures, [team_id |-> t, retries |-> 0])
                            ELSE failures
             /\ update_log' = Append(update_log, e)
             /\ cycle_log' = Append(cycle_log, e)
    \* line 438 uses the module random, which the scheduler never imports:
    \* the delay between two teams raises NameError out of run_update_cycle
    /\ IF idx < Len(teams_to_update)
       THEN pc' = "crashed"
       ELSE pc' = "after_primary"
    /\ UNCHANGED <<config, is_popular_team, now, db_up, candidates, teams_to_update,
                   idx, retry_local, last_update, cycle, cycle_notified>>

\* lines 441-447 and the entry of process_failed_updates, lines 283-290
StartRetries ==
    /\ UNCHANGED <<wireVars, chainVars, idVars, storeVars, runVars>>
    /\ pc = "after_primary"
    /\ backoff_waits' = backoff_waits + RetryDelaySleeps(config, failures)
    /\ carried' = carried
    /\ rewrites' = rewrites
    /\ IF failures # <<>> /\ config.retry_failed
       THEN /\ retry_local' = failures
            /\ failures' = <<>>
            /\ pc' = "retrying"
       ELSE /\ UNCHANGED <<retry_local, failures>>
            /\ pc' = "stats"
    /\ UNCHANGED <<config, last_scrape, is_popular_team, now, db_up, candidates,
                   teams_to_update, idx, update_log, last_update,
                   success_count, failure_count, cycle, cycle_log, cycle_notified,
                   attempts>>

\* one iteration of the loop of process_failed_updates, lines 293-344
RetryTeam ==
    /\ UNCHANGED <<wireVars, chainVars, idVars, storeVars, runVars, pauseVars>>
    /\ pc = "retrying"
    /\ retry_local # <<>>
    /\ LET team_info == Head(retry_local)
           t == team_info.team_id
           retries == team_info.retries + 1
       IN IF WithinRetryLimit(retries, config)
          THEN \E env \in CallEnvs :
                  LET r == UpdateTeamInDatabase(t, TRUE, env, last_scrape, now)
                      e == LogEntry(t, "success", retries)
                  IN /\ last_scrape' = LastScrapeAfter(t, TRUE, env, last_scrape, now)
                     /\ attempts' = [attempts EXCEPT ![t] = Append(@, r)]
                     /\ IF r = "count"
                        THEN /\ update_log' = Append(update_log, e)
                             /\ cycle_log' = Append(cycle_log, e)
                             /\ failures' = failures
                        ELSE /\ UNCHANGED <<update_log, cycle_log>>
                             /\ failures' =
                                   Append(failures, [team_info EXCEPT !.retries = retries])
          ELSE LET e == LogEntry(t, "failed", retries)
               IN /\ update_log' = Append(update_log, e)
                  /\ cycle_log' = Append(cycle_log, e)
                  /\ UNCHANGED <<last_scrape, attempts, failures>>
    /\ retry_local' = Tail(retry_local)
    /\ UNCHANGED <<config, is_popular_team, now, db_up, candidates, teams_to_update,
                   pc, idx, last_update, success_count, failure_count,
                   cycle, cycle_notified>>

\* the end of process_failed_updates, lines 346-356
FinishRetries ==
    /\ UNCHANGED <<wireVars, chainVars, idVars, storeVars, runVars, pauseVars>>
    /\ pc = "retrying"
    /\ retry_local = <<>>
    /\ update_log' = <<>>
    /\ cycle_notified' =
          IF Len(failures) >= config.error_threshold
          THEN cycle_notified + Sent(config)
          ELSE cycle_notified
    /\ pc' = "stats"
    /\ UNCHANGED <<config, last_scrape, is_popular_team, now, db_up, candidates,
                   teams_to_update, idx, failures, retry_local, last_update,
                   success_count, failure_count, cycle, cycle_log, attempts>>

\* the end of run_update_cycle, lines 449-498
FinishCycle ==
    /\ UNCHANGED <<wireVars, chainVars, idVars, storeVars, runVars, pauseVars>>
    /\ pc = "stats"
    /\ update_log' = <<>>
    /\ cycle_notified' = cycle_notified + CycleNotification(config, failure_count)
    /\ last_update' = now
    /\ pc' = "done"
    /\ UNCHANGED <<config, last_scrape, is_popular_team, now, db_up, candidates,
                   teams_to_update, idx, failures, retry_local, success_count,
                   failure_count, cycle, cycle_log, attempts>>

\* run_update_check of the service (lines 579-598), at startup (line 662) and
\* then one hour or one day after the previous check;
\* an exception of the previous cycle was caught and logged at line 596.  The
\* locals of the previous run_update_cycle are gone.
RunUpdateCheck ==
    /\ UNCHANGED <<wireVars, chainVars, idVars, storeVars, runVars>>
    /\ backoff_waits' = 0
    /\ carried' = IF pc \in {"started", "skipped"} THEN carried
                  ELSE Unrefreshed(candidates, last_scrape, now)
    /\ rewrites' = rewrites
    /\ mode = "service"
    /\ pc \in {"started", "done", "crashed", "skipped"}
    /\ cycle < MaxCycles
    /\ cycle' = cycle + 1
    /\ \E d \in IF pc = "started" THEN {0} ELSE TickHours :
          /\ now' = now + d
          /\ IF \/ ~IsWithinUpdateWindow(now', config)
                \/ last_update # NULL /\ now' - last_update < config.update_interval
             THEN pc' = "skipped"
             ELSE pc' = "idle"
    /\ db_up' = TRUE
    /\ candidates' = <<>>
    /\ teams_to_update' = <<>>
    /\ idx' = 0
    /\ retry_local' = <<>>
    /\ success_count' = 0
    /\ failure_count' = 0
    /\ cycle_log' = <<>>
    /\ cycle_notified' = 0
    /\ attempts' = [t \in Teams |-> <<>>]
    /\ UNCHANGED <<config, last_scrape, is_popular_team, failures, update_log,
                   last_update>>

\* update_popular_teams (lines 600-647), the daily job of run_service (line
\* 657): popular_teams.json is rewritten with the 20 teams that have most
\* match rows at that time
UpdatePopularTeams ==
    /\ UNCHANGED <<wireVars, chainVars, idVars, storeVars, runVars>>
    /\ mode = "service"
    /\ pc \in {"done", "crashed", "skipped"}
    /\ cycle < MaxCycles
    /\ rewrites < MaxRewrites
    /\ rewrites' = rewrites + 1
    /\ \E p \in [Teams -> BOOLEAN] :
          /\ Cardinality({t \in Teams : p[t] # is_popular_team[t]})
                \in 1..MaxListChanges
          /\ is_popular_team' = p
    /\ UNCHANGED <<backoff_waits, carried>>
    /\ UNCHANGED <<config, last_scrape, now, db_up, candidates, teams_to_update,
                   pc, idx, failures, retry_local, update_log, last_update,
                   success_count, failure_count, cycle, cycle_log,
                   cycle_notified, attempts>>

\* run_once (lines 678-690) and main (lines 713-717): an exception of
\* run_update_cycle makes run_once return False and main return 1
RunOnceReturns ==
    /\ UNCHANGED <<wireVars, chainVars, idVars, storeVars, pauseVars>>
    /\ mode = "once"
    /\ pc \in {"done", "crashed"}
    /\ exit_code' = IF pc = "done" THEN 0 ELSE 1
    /\ pc' = "exited"
    /\ UNCHANGED <<mode, config, last_scrape, is_popular_team, now, db_up, candidates,
                   teams_to_update, idx, failures, retry_local, update_log,
                   last_update, success_count, failure_count, cycle, cycle_log,
                   cycle_notified, attempts>>

Next ==
    \/ CallGetTeamsToUpdate
    \/ BeginPass
    \/ UpdateTeam
    \/ StartRetries
    \/ RetryTeam
    \/ FinishRetries
    \/ FinishCycle
    \/ RunUpdateCheck
    \/ UpdatePopularTeams
    \/ RunOnceReturns

Spec == Init /\ [][Next]_vars

(***************************************************************************)
(* Properties of candidate selection (checked under SpecSelect)            *)
(***************************************************************************)
Ids(s) == [i \in 1..Len(s) |-> s[i].team_id]

IdSet(s) == {s[i].team_id : i \in 1..Len(s)}

Selected == pc = "selected"

\* hours since the last refresh of a refreshed team of the store
StoreHours(t) == now - last_scrape[t]

\* hours >= base_interval / multiplier for a popular team, hours >= base_interval otherwise
ReachedEffectiveInterval(t) ==
    IF is_popular_team[t]
    THEN StoreHours(t) * config.popular_teams_weight >= config.update_interval
    ELSE StoreHours(t) >= config.update_interval

\* C4: whenever the selection loop has run over the team rows, the entities it
\* selected are exactly those whose last refresh is null or lies at least the
\* effective interval back (base interval, divided by the popularity
\* multiplier for a popular entity).
C4_CandidateIffStale ==
    (Selected /\ db_up) =>
        IdSet(candidates) =
            {t \in Teams : last_scrape[t] = NULL \/ ReachedEffectiveInterval(t)}

\* a popular team selected only because of its shortened interval, next to a
\* refreshed team that is not selected
C4_Witness ==
    /\ Selected /\ db_up
    /\ \E t \in IdSet(candidates) :
          /\ last_scrape[t] # NULL /\ is_popular_team[t]
          /\ StoreHours(t) < config.update_interval
    /\ \E t \in Teams : last_scrape[t] # NULL /\ t \notin IdSet(candidates)

\* the scenario of C5 with TeamC refreshed hoursC hours ago; teams other than
\* A, B, C are fresh and not popular
ScenarioABC(hoursC) ==
    /\ config.update_interval = 24
    /\ config.popular_teams_weight = 2
    /\ last_scrape[TeamA] = NULL
    /\ last_scrape[TeamB] = now - 2 /\ ~is_popular_team[TeamB]
    /\ last_scrape[TeamC] = now - hoursC /\ is_popular_team[TeamC]
    /\ \A t \in Teams \ {TeamA, TeamB, TeamC} :
          last_scrape[t] = now - 2 /\ ~is_popular_team[t]

\* the cap does not cut a list of two entries
CapAllowsTwo == config.max_teams_per_update \in {0} \cup (2..(MaxCap + 1))

\* C5 as stated: TeamA never refreshed, TeamB not popular and refreshed 2
\* hours ago, TeamC popular (multiplier 2) and refreshed 10 hours ago, base
\* interval 24 hours: the returned list is TeamA, TeamC.
C5_Original ==
    (Selected /\ db_up /\ ScenarioABC(10) /\ CapAllowsTwo)
        => Ids(teams_to_update) = <<TeamA, TeamC>>

\* C5 amended: in that scenario the returned list is TeamA alone, TeamC's 10
\* hours being below its effective interval of 12 hours; with TeamC refreshed
\* 12 hours ago the returned list is TeamA, TeamC.
C5_ScenarioABC ==
    /\ (Selected /\ db_up /\ ScenarioABC(10))
          => Ids(teams_to_update) = <<TeamA>>
    /\ (Selected /\ db_up /\ ScenarioABC(12) /\ CapAllowsTwo)
          => Ids(teams_to_update) = <<TeamA, TeamC>>

C5_Witness ==
    /\ Selected /\ db_up
    /\ ScenarioABC(10)
    /\ config.max_teams_per_update = 0
    /\ Len(teams_to_update) = 1

\* C6: in the returned list never-refreshed entities precede refreshed ones,
\* within the same class popular entities precede the others, and within the
\* same class and popularity the hours since the last refresh do not increase.
C6_PriorityOrder ==
    Selected =>
        \A i, j \in 1..Len(teams_to_update) :
            i < j =>
                LET a == teams_to_update[i]
                    b == teams_to_update[j]
                    sameClass == (a.last_update = NULL) <=> (b.last_update = NULL)
                IN /\ ~(a.last_update # NULL /\ b.last_update = NULL)
                   /\ sameClass => ~(~a.is_popular /\ b.is_popular)
                   /\ (/\ sameClass
                       /\ a.is_popular = b.is_popular
                       /\ a.last_update # NULL)
                          => a.hours_since_update >= b.hours_since_update

\* a never-refreshed team, then two popular teams of different staleness
C6_Witness ==
    /\ Selected
    /\ Len(teams_to_update) = 3
    /\ teams_to_update[1].last_update = NULL
    /\ teams_to_update[2].last_update # NULL /\ teams_to_update[2].is_popular
    /\ teams_to_update[3].last_update # NULL /\ teams_to_update[3].is_popular
    /\ teams_to_update[2].hours_since_update > teams_to_update[3].hours_since_update

\* C7 as stated: the returned list never has more than max_teams_per_update
\* entries, for every value of max_teams_per_update.
C7_Original ==
    Selected => Len(teams_to_update) <= config.max_teams_per_update

\* C7 amended: when max_teams_per_update is greater than 0 the returned list
\* has at most max_teams_per_update entries.
C7_CapWhenPositive ==
    (Selected /\ config.max_teams_per_update > 0)
        => Len(teams_to_update) <= config.max_teams_per_update

\* more candidates than the cap allows
C7_Witness ==
    /\ Selected
    /\ config.max_teams_per_update > 0
    /\ Len(candidates) > config.max_teams_per_update
    /\ Len(teams_to_update) = config.max_teams_per_update

\* C8 as stated: every entity without a last refresh is in the returned list.
C8_Original ==
    Selected => \A t \in Teams : last_scrape[t] = NULL => t \in IdSet(teams_to_update)

\* C8 amended: an entity without a last refresh is in the returned list unless
\* the list was cut to max_teams_per_update (> 0) entries, all of them
\* never-refreshed entities, or the store could not be read and the list is
\* empty.
C8_NullIsCandidate ==
    Selected =>
        \A t \in Teams :
            last_scrape[t] = NULL =>
                \/ t \in IdSet(teams_to_update)
                \/ /\ db_up
                   /\ config.max_teams_per_update > 0
                   /\ Len(teams_to_update) = config.max_teams_per_update
                   /\ \A i \in 1..Len(teams_to_update) :
                         teams_to_update[i].last_update = NULL
                \/ ~db_up /\ teams_to_update = <<>>

\* a never-refreshed team returned although no interval has elapsed for it,
\* and a second one cut off by the cap
C8_Witness ==
    /\ Selected /\ db_up
    /\ \E t, u \in Teams :
          /\ last_scrape[t] = NULL /\ t \in IdSet(teams_to_update)
          /\ last_scrape[u] = NULL /\ u \notin IdSet(teams_to_update)

(***************************************************************************)
(* Properties of the update cycle (checked under Spec)                     *)
(***************************************************************************)
\* run_update_cycle processed its candidates and returned normally
CycleCompleted == pc = "done" /\ teams_to_update # <<>>

\* a fetch attempt that obtained and stored nothing
IsFailure(r) == r \in {"zero", "raise"}

\* the team was fetched in this cycle and every fetch of it failed
AlwaysFailed(t) ==
    /\ attempts[t] # <<>>
    /\ \A i \in 1..Len(attempts[t]) : IsFailure(attempts[t][i])

\* fetches of the team after its first one in this cycle
RetryCount(t) == Len(attempts[t]) - 1

\* entries of this cycle's report that mark the team as failed
FailedReports(t) ==
    Cardinality({i \in 1..Len(cycle_log) :
                    cycle_log[i].team = t /\ cycle_log[i].status = "failed"})

FailedEntities == {t \in Teams : AlwaysFailed(t)}

\* C2: with retries switched on, an entity whose every fetch of the cycle
\* failed has been retried exactly max_retries times when the cycle ends and
\* is reported as failed exactly once in that cycle.
C2_RetriedToMaxThenFailedOnce ==
    (CycleCompleted /\ config.retry_failed) =>
        \A t \in Teams :
            AlwaysFailed(t) =>
                /\ RetryCount(t) = config.max_retries
                /\ FailedReports(t) = 1

\* C3: with notifications enabled for errors and retries switched on, a
\* completed cycle in which at least error_threshold entities failed has sent
\* exactly one notification.
C3_ExactlyOneAlert ==
    (/\ CycleCompleted
     /\ config.notifications_enabled
     /\ config.send_on_error
     /\ config.retry_failed
     /\ Cardinality(FailedEntities) >= config.error_threshold)
        => cycle_notified = 1

\* self.db.connect() failed when the cycle asked for its candidates
SinkUnreachableAtStart == ~db_up /\ pc \in {"done", "exited"}

\* C13: a cycle that found the database unreachable at its start is not
\* recorded as completed (self.last_update is not set to its time), and a
\* single-cycle run of it exits with a non-zero code.
C13_UnreachableSinkAbortsCycle ==
    SinkUnreachableAtStart =>
        /\ last_update # now
        /\ pc = "exited" => exit_code # 0

\* C14: a single-cycle run that reached the database and in which some entity
\* failed on every fetch exits with code 0.
C14_PartialFailureExitsZero ==
    (/\ pc = "exited"
     /\ db_up
     /\ FailedEntities # {})
        => exit_code = 0

\* run_update_cycle has returned or raised
CycleEnded == pc \in {"done", "crashed", "exited"}

\* some fetch of the cycle returned 0 without storing a row, which is what
\* update_team_in_database returns when insert_matches fails and rolls back
SomeBatchDropped ==
    \E t \in Teams : \E i \in 1..Len(attempts[t]) : attempts[t][i] = "zero"

\* C15: when the batch of an entity could not be stored, the cycle still
\* fetches every other candidate of its list before it ends.
C15_CycleContinuesAfterDroppedBatch ==
    (CycleEnded /\ SomeBatchDropped) =>
        \A i \in 1..Len(teams_to_update) :
            attempts[teams_to_update[i].team_id] # <<>>

\* Outcome of the refresh job of a team when the cycle has ended:
\*   Done      a fetch of the cycle stored its rows
\*   Retrying  the team waits in self.failures
\*   Failed    the cycle reported it as failed and it waits for no retry
Queued(t) == \E i \in 1..Len(failures) : failures[i].team_id = t

JobDone(t) == \E i \in 1..Len(attempts[t]) : attempts[t][i] = "count"

JobRetrying(t) == ~JobDone(t) /\ Queued(t) /\ config.retry_failed

JobFailed(t) == ~JobDone(t) /\ ~JobRetrying(t) /\ FailedReports(t) >= 1

\* the job was fetched and no fetch was turned down by the freshness check
Processed(t) ==
    /\ attempts[t] # <<>>
    /\ \A i \in 1..Len(attempts[t]) : attempts[t][i] # "skipped"

\* C20: a job whose fetch has stored its rows (Done) is not fetched again in
\* the cycle, and when the cycle has completed every processed job is Done
\* or Failed.
C20_JobsEndDoneOrFailed ==
    /\ \A t \in Teams :
          \A i \in 1..Len(attempts[t]) :
              attempts[t][i] = "count" => i = Len(attempts[t])
    /\ CycleCompleted =>
          \A t \in Teams : Processed(t) => JobDone(t) \/ JobFailed(t)

\* the step of the primary pass that fetches the candidate at index idx
PrimaryFetch == pc = "primary" /\ pc' \in {"after_primary", "crashed"}

PrimaryTeam == teams_to_update[idx].team_id

\* C21: a primary-pass fetch that fails (an exception, or 0 returned for an
\* error) appends the entity to self.failures with retries = 1; one that
\* stores rows records the refresh, logs success and adds nothing to the queue.
C21_FailureQueuedSuccessDone ==
    [][PrimaryFetch =>
          LET r == Last(attempts'[PrimaryTeam])
          IN /\ IsFailure(r) =>
                   failures' = Append(failures, [team_id |-> PrimaryTeam, retries |-> 1])
             /\ r = "count" =>
                   /\ failures' = failures
                   /\ last_scrape'[PrimaryTeam] = now
                   /\ Last(cycle_log').status = "success"
      ]_vars

\* C22: the primary pass never ends by an exception, and when it is over
\* every candidate of the list has been fetched exactly once.
C22_PrimaryPassCoversList ==
    /\ pc # "crashed"
    /\ pc = "after_primary" =>
          \A i \in 1..Len(teams_to_update) :
              Len(attempts[teams_to_update[i].team_id]) = 1

\* the update log of the cycle names the outcome of the team as final
ReportedFinal(t) ==
    \E i \in 1..Len(cycle_log) :
        cycle_log[i].team = t /\ cycle_log[i].status \in {"success", "failed"}

\* C23: when a cycle has completed, and when the next one starts, the retry
\* queue is empty; every job of a completed cycle is reported as success or
\* failed.
C23_NoLiveJobAfterCycle ==
    /\ (CycleCompleted \/ pc = "idle") => failures = <<>>
    /\ CycleCompleted =>
          \A t \in Teams : attempts[t] # <<>> => ReportedFinal(t)

\* a step of process_failed_updates that fetches a queued team again
RetryFetch == pc = "retrying" /\ attempts' # attempts

\* the loop of lines 376-438 has gone through the whole list
PrimaryPassOver ==
    /\ idx = Len(teams_to_update)
    /\ \A i \in 1..Len(teams_to_update) :
          attempts[teams_to_update[i].team_id] # <<>>

\* C24: a team is fetched again only when the primary pass is over and the
\* retry delay has been slept once in this cycle; the delay is slept only at
\* the end of the primary pass; and when self.failures is empty at that point
\* the cycle sleeps no retry delay and goes straight to its report.
C24_RetriesOnlyAfterPassAndDelay ==
    [][/\ RetryFetch => (PrimaryPassOver /\ backoff_waits = 1)
       /\ backoff_waits' > backoff_waits => pc = "after_primary"
       /\ (pc = "after_primary" /\ failures = <<>>) =>
             (backoff_waits' = backoff_waits /\ pc' = "stats")
      ]_vars

\* a queued team has just been fetched again
C24_Witness ==
    /\ pc = "retrying"
    /\ backoff_waits = 1
    /\ \E t \in Teams : Len(attempts[t]) >= 2

\* the first call of update_team_in_database for the team in this cycle got
\* past the freshness check
FetchAttempted(t) == attempts[t] # <<>> /\ attempts[t][1] # "skipped"

\* C27: when the primary pass has stopped, every team of the selected list
\* has had update_team_in_database called for it and none of these calls
\* returned at the freshness check.
C27_SelectedEntitiesFetched ==
    pc \in {"after_primary", "crashed"} =>
        \A i \in 1..Len(teams_to_update) :
            FetchAttempted(teams_to_update[i].team_id)

\* the retries values of the entries of a queue are within the limit
RetriesWithinLimit(queue) ==
    \A i \in 1..Len(queue) : queue[i].retries \in 0..config.max_retries

\* process_failed_updates handles the next entry of its copy of the queue
RetryStep == pc = "retrying" /\ retry_local # <<>> /\ retry_local' = Tail(retry_local)

\* C28: every entry of self.failures, and of the copy process_failed_updates
\* works on, has retries in 0..max_retries. An entry is fetched again only
\* while its retries is below max_retries, and a failed retry puts it back with
\* retries one higher, so one entry is fetched again at most max_retries times.
\* An entry whose next retry number exceeds max_retries is not fetched, is not
\* put back into self.failures, and gets one 'failed' entry in the update log.
C28_RetriesBoundedThenFailedOnce ==
    [][/\ RetriesWithinLimit(failures) /\ RetriesWithinLimit(retry_local)
       /\ RetriesWithinLimit(failures') /\ RetriesWithinLimit(retry_local')
       /\ RetryStep =>
            LET team_info == Head(retry_local)
                t == team_info.team_id
                n == team_info.retries + 1
            IN /\ attempts' # attempts =>
                    /\ team_info.retries < config.max_retries
                    /\ attempts' = [attempts EXCEPT ![t] = Append(@, Last(attempts'[t]))]
                    /\ IF Last(attempts'[t]) = "count"
                       THEN failures' = failures
                       ELSE failures' = Append(failures, [team_id |-> t, retries |-> n])
               /\ n > config.max_retries =>
                    /\ attempts' = attempts
                    /\ failures' = failures
                    /\ cycle_log' = Append(cycle_log, LogEntry(t, "failed", n))
      ]_vars

\* an entry that had used up its retries has just been given up
C28_Witness ==
    /\ pc = "retrying"
    /\ config.max_retries >= 1
    /\ cycle_log # <<>>
    /\ Last(cycle_log) = LogEntry(Last(cycle_log).team, "failed", config.max_retries + 1)
    /\ Len(attempts[Last(cycle_log).team]) >= 2

\* a call of update_team_in_database that returned 0 (nothing found, scrape
\* error swallowed, skipped as fresh, rows not stored) leaves MAX(scrape_date)
\* of the team as it was
NoRowsNoNewTimestamp ==
    \A t \in Teams :
        (/\ Len(attempts'[t]) = Len(attempts[t]) + 1
         /\ Last(attempts'[t]) \in {"zero", "skipped"})
            => last_scrape' = last_scrape

\* get_teams_to_update is called for a new cycle
SelectionStep == pc = "idle" /\ pc' = "selected"

SelectedAgain(t) == \E i \in 1..Len(candidates') : candidates'[i].team_id = t

WindowHours(a, b) ==
    IF a <= b THEN a..b ELSE (a..23) \cup (0..b)

\* a call of run_update_check
CheckStep == mode = "service" /\ cycle' = cycle + 1

\* C30: run_update_check starts a cycle exactly when the hour of the check is
\* in the update window and there is no last_update or at least
\* update_interval hours have passed since it; otherwise no cycle is started
\* and last_update, self.failures and the update log stay as they are.
C30_CycleStartsOnlyInWindowAndDue ==
    [][CheckStep =>
          LET inside == HourOfDay(now') \in
                           WindowHours(config.update_window_start,
                                       config.update_window_end)
              due == \/ last_update = NULL
                     \/ now' - last_update >= config.update_interval
          IN /\ pc' = "idle" <=> (inside /\ due)
             /\ pc' # "idle" =>
                   /\ pc' = "skipped"
                   /\ last_update' = last_update
                   /\ failures' = failures
                   /\ update_log' = update_log
      ]_vars

\* a second cycle has been started inside a window that spans midnight
C30_Witness ==
    /\ mode = "service"
    /\ pc = "idle"
    /\ last_update # NULL
    /\ config.update_window_start > config.update_window_end

(***************************************************************************)
(* The fetch chain: fetch_matches_for_date_range (sofascore_scraper.py)    *)
(***************************************************************************)
\* What a SofaScore tier returns for a date:
\*   "none"        None (every endpoint failed, no events, browser error)
\*   "valid"       a non-empty event list with events that name both teams
\*   "unparsable"  a non-empty event list in which no event names both teams
PayloadKinds == {"none", "valid", "unparsable"}

\* What the alternate source does for a date
AltOutcomes == {"none", "matches", "raise"}

\* The class behind `from scrapers.fbref_scraper import FBrefScraper`:
\*   "db_scraper"    the class of scrapers/fbref_scraper.py, whose __init__
\*                   requires db_connection
\*   "date_scraper"  a class with a constructor without arguments and a
\*                   method fetch_matches_for_date, as the caller expects
FBrefClasses == {"db_scraper", "date_scraper"}

InitChain ==
    /\ InitSchedIdle
    /\ InitWireIdle
    /\ InitIdIdle
    /\ InitStoreIdle
    /\ fbref_class \in FBrefClasses
    /\ session_ok \in BOOLEAN
    /\ api_result \in [1..NumDates -> PayloadKinds]
    /\ browser_result \in [1..NumDates -> PayloadKinds]
    /\ alt_result \in [1..NumDates -> AltOutcomes]
    /\ chain_pc = "start"
    /\ date_idx = 0
    /\ cookies = FALSE
    /\ events = "none"
    /\ source = "none"
    /\ matches = <<>>
    /\ tier_calls = [d \in 1..NumDates |-> <<>>]
    /\ all_matches_by_date = [d \in 1..NumDates |-> <<>>]

\* FBrefScraper() at line 445: the constructor of scrapers/fbref_scraper.py
\* has the required parameter db_connection
ConstructorRaises(class) == class = "db_scraper"

\* parse_events: the standardized matches of an event list
ParseEvents(evs, src, d) ==
    IF evs = "valid" THEN <<[source |-> src, date |-> d]>> ELSE <<>>

\* lines 421-445
StartRange ==
    /\ UNCHANGED <<schedVars, pauseVars, wireVars, idVars, runVars, storeVars>>
    /\ chain_pc = "start"
    /\ cookies' = session_ok
    /\ IF ConstructorRaises(fbref_class)
       THEN /\ chain_pc' = "raised"
            /\ date_idx' = date_idx
       ELSE /\ chain_pc' = "tier1"
            /\ date_idx' = 1
    /\ UNCHANGED <<fbref_class, session_ok, api_result, browser_result, alt_result,
                   events, source, matches, tier_calls, all_matches_by_date>>

\* lines 454-460
FetchEventsViaApi ==
    /\ UNCHANGED <<schedVars, pauseVars, wireVars, idVars, runVars, storeVars>>
    /\ chain_pc = "tier1"
    /\ tier_calls' = [tier_calls EXCEPT ![date_idx] = Append(@, 1)]
    /\ events' = api_result[date_idx]
    /\ source' = IF api_result[date_idx] # "none" THEN "api" ELSE "none"
    /\ matches' = <<>>
    /\ chain_pc' = IF api_result[date_idx] # "none" THEN "parse" ELSE "tier2"
    /\ UNCHANGED <<fbref_class, session_ok, api_result, browser_result, alt_result,
                   date_idx, cookies, all_matches_by_date>>

\* lines 463-466
FetchEventsViaBrowser ==
    /\ UNCHANGED <<schedVars, pauseVars, wireVars, idVars, runVars, storeVars>>
    /\ chain_pc = "tier2"
    /\ tier_calls' = [tier_calls EXCEPT ![date_idx] = Append(@, 2)]
    /\ events' = browser_result[date_idx]
    /\ source' = IF browser_result[date_idx] # "none" THEN "browser" ELSE source
    /\ chain_pc' = IF browser_result[date_idx] # "none" THEN "parse" ELSE "tier3"
    /\ UNCHANGED <<fbref_class, session_ok, api_result, browser_result, alt_result,
                   date_idx, cookies, matches, all_matches_by_date>>

\* lines 469-474
ParseFetchedEvents ==
    /\ UNCHANGED <<schedVars, pauseVars, wireVars, idVars, runVars, storeVars>>
    /\ chain_pc = "parse"
    /\ matches' = ParseEvents(events, source, date_idx)
    /\ chain_pc' = IF ParseEvents(events, source, date_idx) = <<>> THEN "tier3" ELSE "save"
    /\ UNCHANGED <<fbref_class, session_ok, api_result, browser_result, alt_result,
                   date_idx, cookies, events, source, tier_calls, all_matches_by_date>>

\* line 475: matches = fbref.fetch_matches_for_date(date_str)
FetchFromAlternate ==
    /\ UNCHANGED <<schedVars, pauseVars, wireVars, idVars, runVars, storeVars>>
    /\ chain_pc = "tier3"
    /\ tier_calls' = [tier_calls EXCEPT ![date_idx] = Append(@, 3)]
    /\ IF alt_result[date_idx] = "raise"
       THEN /\ chain_pc' = "raised"
            /\ matches' = matches
       ELSE /\ chain_pc' = "save"
            /\ matches' = IF alt_result[date_idx] = "matches"
                          THEN <<[source |-> "fbref", date |-> date_idx]>>
                          ELSE <<>>
    /\ UNCHANGED <<fbref_class, session_ok, api_result, browser_result, alt_result,
                   date_idx, cookies, events, source, all_matches_by_date>>

\* lines 477-488 and the step of the loop over date_list
SaveDate ==
    /\ UNCHANGED <<schedVars, pauseVars, wireVars, idVars, runVars, storeVars>>
    /\ chain_pc = "save"
    /\ all_matches_by_date' =
          IF matches # <<>>
          THEN [all_matches_by_date EXCEPT ![date_idx] = matches]
          ELSE all_matches_by_date
    /\ IF date_idx < NumDates
       THEN /\ date_idx' = date_idx + 1
            /\ chain_pc' = "tier1"
       ELSE /\ date_idx' = date_idx
            /\ chain_pc' = "returned"
    /\ events' = "none"
    /\ source' = "none"
    /\ matches' = <<>>
    /\ UNCHANGED <<fbref_class, session_ok, api_result, browser_result, alt_result,
                   cookies, tier_calls>>

NextChain ==
    \/ StartRange
    \/ FetchEventsViaApi
    \/ FetchEventsViaBrowser
    \/ ParseFetchedEvents
    \/ FetchFromAlternate
    \/ SaveDate

SpecChain == InitChain /\ [][NextChain]_vars

(***************************************************************************)
(* Properties of the fetch chain (checked under SpecChain)                 *)
(***************************************************************************)
\* the first tier whose response for the date is a non-empty valid payload,
\* 0 if no tier has one
FirstValidTier(d) ==
    IF api_result[d] = "valid" THEN 1
    ELSE IF browser_result[d] = "valid" THEN 2
    ELSE IF alt_result[d] = "matches" THEN 3
    ELSE 0

TierSource(k) == IF k = 1 THEN "api" ELSE IF k = 2 THEN "browser" ELSE "fbref"

\* the tiers the chain has to invoke for the date, in order
ExpectedCalls(d) ==
    IF FirstValidTier(d) = 0 THEN <<1, 2, 3>>
    ELSE [i \in 1..FirstValidTier(d) |-> i]

ChainEnded == chain_pc \in {"returned", "raised"}

\* C1: when the alternate source raises for no date, a finished call has, for
\* every date, invoked the tiers in the order API, rendered page, alternate
\* source, each tier only after all earlier ones gave nothing usable, no tier
\* after the first one with a valid payload, and has returned that payload;
\* for the responses empty, empty, success these are exactly 3 invocations.
C1_TiersInOrderUntilFirstValid ==
    (ChainEnded /\ \A d \in 1..NumDates : alt_result[d] # "raise") =>
        \A d \in 1..NumDates :
            /\ tier_calls[d] = ExpectedCalls(d)
            /\ FirstValidTier(d) # 0 =>
                  all_matches_by_date[d] =
                      <<[source |-> TierSource(FirstValidTier(d)), date |-> d]>>

\* some date for which no tier has a usable response
SomeDateExhausted == \E d \in 1..NumDates : FirstValidTier(d) = 0

\* C12: a finished call in which every tier yielded nothing or failed for some
\* date has returned and not raised, has gone through every date of the range,
\* and holds no matches for the dates whose tiers were all exhausted.
C12_ExhaustedChainReturnsEmpty ==
    (ChainEnded /\ SomeDateExhausted) =>
        /\ chain_pc = "returned"
        /\ \A d \in 1..NumDates :
              /\ tier_calls[d] # <<>>
              /\ FirstValidTier(d) = 0 => all_matches_by_date[d] = <<>>

(***************************************************************************)
(* match_id: process_match_dataframe (scrapers/fbref_scraper.py) and       *)
(* process_match_data (fbref_pipeline.py)                                  *)
(***************************************************************************)
\* dates as <<year, month, day>>
MatchDates == {<<2025, 5, 1>>, <<2025, 11, 23>>}

TeamNames == {"Arsenal", "Chelsea", "Leeds"}

Competitions == {"Premier League", "FA Cup"}

Fixtures ==
    {f \in [date : MatchDates, home : TeamNames, away : TeamNames,
            competition : Competitions] : f.home # f.away}

Plays(f, team) == team \in {f.home, f.away}

\* no team plays two fixtures on one date
Playable(fs) ==
    \A f, g \in fs :
        (f # g /\ f.date = g.date) => {f.home, f.away} \cap {g.home, g.away} = {}

InitId ==
    /\ InitSchedIdle
    /\ InitWireIdle
    /\ InitChainIdle
    /\ InitStoreIdle
    /\ schedule \in {fs \in SUBSET Fixtures : Cardinality(fs) \in 1..2 /\ Playable(fs)}
    /\ normalized = {}

\* strftime('%Y%m%d')
StrftimeYmd(date) == date[1] * 10000 + date[2] * 100 + date[3]

\* the row of a fixture in the match log of one of its two teams
MatchLogRow(f, team) ==
    [date |-> f.date,
     team |-> team,
     opponent |-> IF team = f.home THEN f.away ELSE f.home,
     venue |-> IF team = f.home THEN "Home" ELSE "Away",
     competition |-> f.competition]

\* fbref_scraper.py, line 662
ScraperMatchId(row) == <<StrftimeYmd(row.date), "_", row.team, "_", row.opponent>>

\* fbref_pipeline.py, line 339
PipelineMatchId(row) == <<StrftimeYmd(row.date), "_", row.team, "_", row.opponent>>

CanonicalRecord(f, row, id, by) ==
    [fixture |-> f, team |-> row.team, opponent |-> row.opponent,
     venue |-> row.venue, competition |-> row.competition,
     match_id |-> id, normalizer |-> by, source |-> "fbref"]

\* FBrefScraper.process_match_dataframe on the match log of a team
ProcessMatchDataframe ==
    /\ UNCHANGED <<schedVars, pauseVars, wireVars, chainVars, runVars, storeVars>>
    /\ Cardinality(normalized) < MaxRecords
    /\ \E f \in schedule, team \in TeamNames :
          /\ Plays(f, team)
          /\ LET row == MatchLogRow(f, team)
             IN normalized' = normalized \cup
                   {CanonicalRecord(f, row, ScraperMatchId(row), "scraper")}
    /\ UNCHANGED schedule

\* fbref_pipeline.process_match_data on the match log of a team
ProcessMatchData ==
    /\ UNCHANGED <<schedVars, pauseVars, wireVars, chainVars, runVars, storeVars>>
    /\ Cardinality(normalized) < MaxRecords
    /\ \E f \in schedule, team \in TeamNames :
          /\ Plays(f, team)
          /\ LET row == MatchLogRow(f, team)
             IN normalized' = normalized \cup
                   {CanonicalRecord(f, row, PipelineMatchId(row), "pipeline")}
    /\ UNCHANGED schedule

NextId ==
    \/ ProcessMatchDataframe
    \/ ProcessMatchData

SpecId == InitId /\ [][NextId]_vars

(***************************************************************************)
(* Properties of match_id (checked under SpecId)                           *)
(***************************************************************************)
\* C9: two records of the same fixture carry the same match_id, whichever
\* normaliser produced them and whichever of the two teams was refreshed, and
\* two records of different fixtures carry different match_ids.
C9_OneIdPerFixture ==
    \A r1, r2 \in normalized :
        /\ r1.fixture = r2.fixture => r1.match_id = r2.match_id
        /\ r1.fixture # r2.fixture => r1.match_id # r2.match_id

\* C10: the match_id is a function of (date, home, away, competition) alone:
\* over all records produced, each fixture has at most one match_id.
C10_IdIsFunctionOfFixture ==
    \A f \in schedule :
        Cardinality({r.match_id : r \in {x \in normalized : x.fixture = f}}) <= 1

(***************************************************************************)
(* update_team_in_database, step by step, with the tables team and match   *)
(* (scrapers/fbref_scraper.py)                                             *)
(***************************************************************************)
\* pd.NaT: the date of a row whose Date cell is blank
NaT == <<>>

\* the teams that are refreshed; every other team is met as an opponent only
StoreTeams == {"Arsenal", "Chelsea"}

\* date of the match-log rows
StoreDates == {<<2025, 5, 1>>}

\* cells of the numeric column GF: blank (NULL), no goal, two goals
GoalCells == {NULL, 0, 2}

\* cells of the column Poss: blank (NULL) or 55 %
PossCells == {NULL, 55}

\* rows that the match-log table of a team may hold once read_html has read
\* it: the Date cell may be blank, the table may repeat a row, the statistics
\* of a match are given or left blank together
RawRows(team) ==
    {r \in [date : StoreDates \cup {NaT}, opponent : TeamNames \ {team},
            gf : GoalCells, possession : PossCells] :
        (r.gf = NULL) <=> (r.possession = NULL)}

RawFrames(team) ==
    UNION {[1..n -> RawRows(team)] : n \in 0..MaxRows}

\* pd.to_numeric(..., errors="coerce").fillna(0), line 642
FillNa(v) == IF v = NULL THEN 0 ELSE v

\* lines 660-666: the lambda raises for a row whose date is NaT, and the bare
\* except leaves the frame without a match_id column
HasMatchIdColumn(raw) == \A i \in 1..Len(raw) : raw[i].date # NaT

\* process_match_dataframe applied to the rows of a team
ProcessedFrame(raw, team) ==
    [i \in 1..Len(raw) |->
        LET row == [date |-> raw[i].date, team |-> team,
                    opponent |-> raw[i].opponent]
        IN [date |-> raw[i].date,
            team |-> team,
            opponent |-> raw[i].opponent,
            gf |-> FillNa(raw[i].gf),
            possession |-> raw[i].possession,
            match_id |-> IF HasMatchIdColumn(raw) THEN ScraperMatchId(row) ELSE <<>>,
            source |-> "fbref",
            cells |-> raw[i]]]

\* the tuple of lines 773-798 for a processed row
MatchTuple(row, team, clock) ==
    [match_id |-> IF row.match_id # <<>> THEN row.match_id
                  ELSE <<StrftimeYmd(row.date), "_", team, "_", row.opponent>>,
     date |-> row.date,
     team |-> team,
     opponent |-> row.opponent,
     gf |-> row.gf,
     possession |-> row.possession,
     scrape_date |-> clock,
     source |-> row.source]

\* The loop of lines 753-798 from row i on.  An opponent that table team does
\* not hold is added by add_team, whose execute_query commits the INSERT and
\* returns True, so that len(result) at line 233 raises TypeError; a NaT date
\* raises in strftime at line 774.  Both end the loop.
RECURSIVE PrepareFrom(_, _, _, _, _, _)
PrepareFrom(rows, i, team, clock, known, acc) ==
    IF i > Len(rows) THEN [known |-> known, data |-> acc, raised |-> FALSE]
    ELSE IF rows[i].opponent \notin known
         THEN [known |-> known \cup {rows[i].opponent}, data |-> acc, raised |-> TRUE]
    ELSE IF rows[i].date = NaT
         THEN [known |-> known, data |-> acc, raised |-> TRUE]
    ELSE PrepareFrom(rows, i + 1, team, clock, known,
                     Append(acc, MatchTuple(rows[i], team, clock)))

\* SELECT MAX(scrape_date) FROM match WHERE team_id = ..., lines 728-731
MaxScrapeDate(table, team) ==
    LET ds == {r.scrape_date : r \in {x \in table : x.team = team}}
    IN IF ds = {} THEN NULL ELSE CHOOSE d \in ds : \A e \in ds : e <= d

\* ON CONFLICT(match_id) DO NOTHING instead of DO UPDATE
UpsertKeepsStored(table, row) ==
    IF \E r \in table : r.match_id = row.match_id THEN table ELSE table \cup {row}

\* INSERT ... ON CONFLICT(match_id) DO UPDATE SET ..., lines 255-285: the
\* columns date, team_id and opponent_id of a stored row are not in the SET list
Upsert(table, row) ==
    LET old == {r \in table : r.match_id = row.match_id}
    IN IF old = {} THEN table \cup {row}
       ELSE (table \ old) \cup
            {[r EXCEPT !.gf = row.gf, !.possession = row.possession,
                       !.scrape_date = row.scrape_date, !.source = row.source]
                : r \in old}

RECURSIVE UpsertAll(_, _)
UpsertAll(table, rows) ==
    IF rows = <<>> THEN table ELSE UpsertAll(Upsert(table, Head(rows)), Tail(rows))

\* the statement proposes the same match_id twice: PostgreSQL rejects it
\* ("ON CONFLICT DO UPDATE command cannot affect row a second time")
AffectsRowTwice(written, row) ==
    \E i \in 1..Len(written) : written[i].match_id = row.match_id

InitStore ==
    /\ InitSchedIdle
    /\ InitWireIdle
    /\ InitChainIdle
    /\ InitIdIdle
    /\ st_pc = "idle"
    /\ st_team = ""
    /\ st_force = FALSE
    /\ st_now = StartHour
    /\ known_teams = StoreTeams
    /\ frame = <<>>
    /\ match_data = <<>>
    /\ txn = <<>>
    /\ match_table = {}
    /\ handed = <<>>
    /\ st_result = NULL
    /\ fetches = <<>>
    /\ interrupted = FALSE
    /\ calls = 0

\* Lines 686-741: a caller (the primary pass, the retry pass, a later cycle)
\* calls update_team_in_database for a team of table team whose league is
\* stored; the connection, then the freshness check.
StartUpdate ==
    /\ UNCHANGED <<schedVars, pauseVars, wireVars, chainVars, idVars, runVars>>
    /\ st_pc = "idle"
    /\ calls < MaxCalls
    /\ \E t \in StoreTeams, force \in BOOLEAN, d \in TickHours, up \in BOOLEAN :
          LET last == MaxScrapeDate(match_table, t)
              fresh == ~force /\ last # NULL /\ (st_now + d) - last < FreshHours
          IN /\ st_team' = t
             /\ st_force' = force
             /\ st_now' = st_now + d
             /\ IF ~up \/ fresh
                THEN /\ st_result' = 0
                     /\ st_pc' = "returned"
                     /\ fetches' = fetches
                ELSE /\ st_result' = NULL
                     /\ st_pc' = "scraping"
                     /\ fetches' = Append(fetches, t)
    /\ UNCHANGED <<known_teams, frame, match_data, txn, match_table, handed,
                   interrupted, calls>>

\* scrape_team_matches, lines 500-585, and lines 746-749: an empty frame for
\* any failure of the request, else the processed rows of the match log
ScrapeTeamMatches ==
    /\ UNCHANGED <<schedVars, pauseVars, wireVars, chainVars, idVars, runVars>>
    /\ st_pc = "scraping"
    /\ \E raw \in RawFrames(st_team) :
          /\ frame' = ProcessedFrame(raw, st_team)
          /\ IF raw = <<>>
             THEN /\ st_result' = 0
                  /\ st_pc' = "returned"
             ELSE /\ st_result' = st_result
                  /\ st_pc' = "preparing"
    /\ UNCHANGED <<st_team, st_force, st_now, known_teams, match_data, txn,
                   match_table, handed, fetches, interrupted, calls>>

\* lines 751-798, then the call of insert_matches at line 801 (lines 250-253)
PrepareMatchData ==
    /\ UNCHANGED <<schedVars, pauseVars, wireVars, chainVars, idVars, runVars>>
    /\ st_pc = "preparing"
    /\ LET p == PrepareFrom(frame, 1, st_team, st_now, known_teams, <<>>)
       IN /\ known_teams' = p.known
          /\ IF p.raised
             THEN /\ match_data' = <<>>
                  /\ handed' = handed
                  /\ st_result' = 0
                  /\ st_pc' = "returned"
             ELSE /\ match_data' = p.data
                  /\ handed' = p.data
                  /\ st_result' = st_result
                  /\ st_pc' = "writing"
    /\ txn' = <<>>
    /\ UNCHANGED <<st_team, st_force, st_now, frame, match_table, fetches,
                   interrupted, calls>>

\* execute_values, lines 125-137: the statement writes one more row, or fails
\* and the transaction is rolled back
WriteRow ==
    /\ UNCHANGED <<schedVars, pauseVars, wireVars, chainVars, idVars, runVars>>
    /\ st_pc = "writing"
    /\ Len(txn) < Len(match_data)
    /\ \E db_error \in BOOLEAN :
          LET row == match_data[Len(txn) + 1]
          IN IF db_error \/ AffectsRowTwice(txn, row)
             THEN /\ txn' = <<>>
                  /\ st_result' = 0
                  /\ st_pc' = "returned"
             ELSE /\ txn' = Append(txn, row)
                  /\ st_result' = st_result
                  /\ st_pc' = st_pc
    /\ UNCHANGED <<st_team, st_force, st_now, known_teams, frame, match_data,
                   match_table, handed, fetches, interrupted, calls>>

\* self.conn.commit(), line 129, and the return of lines 289-292
CommitBatch ==
    /\ UNCHANGED <<schedVars, pauseVars, wireVars, chainVars, idVars, runVars>>
    /\ st_pc = "writing"
    /\ Len(txn) = Len(match_data)
    /\ match_table' = UpsertAll(match_table, txn)
    /\ txn' = <<>>
    /\ st_result' = Len(match_data)
    /\ st_pc' = "returned"
    /\ UNCHANGED <<st_team, st_force, st_now, known_teams, frame, match_data,
                   handed, fetches, interrupted, calls>>

\* lines 803-811: the value goes back to the caller, the connection is closed
ReturnToCaller ==
    /\ UNCHANGED <<schedVars, pauseVars, wireVars, chainVars, idVars, runVars>>
    /\ st_pc = "returned"
    /\ st_pc' = "idle"
    /\ calls' = calls + 1
    /\ frame' = <<>>
    /\ match_data' = <<>>
    /\ handed' = <<>>
    /\ UNCHANGED <<st_team, st_force, st_now, known_teams, txn, match_table,
                   st_result, fetches, interrupted>>

\* A KeyboardInterrupt is delivered.  No handler of update_team_in_database
\* (line 807), run_update_cycle (line 413) or run_update_check (line 596)
\* catches it, since they name Exception: it ends the pass, and the finally
\* block closes the connection with the transaction uncommitted.  The bare
\* except clauses of process_match_dataframe (lines 643, 650, 665) do catch
\* it: an interrupt delivered inside them is lost and the run goes on.
Interrupt ==
    /\ UNCHANGED <<schedVars, pauseVars, wireVars, chainVars, idVars, runVars>>
    /\ ~interrupted
    /\ st_pc \in {"idle", "scraping", "preparing", "writing", "returned"}
    /\ interrupted' = TRUE
    /\ \E swallowed \in BOOLEAN :
          IF swallowed /\ st_pc = "scraping"
          THEN UNCHANGED <<st_pc, txn>>
          ELSE /\ st_pc' = "stopped"
               /\ txn' = <<>>
    /\ UNCHANGED <<st_team, st_force, st_now, known_teams, frame, match_data,
                   match_table, handed, st_result, fetches, calls>>

NextStore ==
    \/ StartUpdate
    \/ ScrapeTeamMatches
    \/ PrepareMatchData
    \/ WriteRow
    \/ CommitBatch
    \/ ReturnToCaller
    \/ Interrupt

SpecStore == InitStore /\ [][NextStore]_vars

(***************************************************************************)
(* Properties of the tables (checked under SpecStore)                      *)
(***************************************************************************)
\* the step in which insert_matches commits the batch of the running call
CommitsBatch == st_pc = "writing" /\ st_pc' = "returned" /\ st_result' > 0

StoredUnder(table, id) == {r \in table : r.match_id = id}

\* C11: when insert_matches commits a batch, the table holds exactly one row
\* for each match_id of the batch, that row carries the statistics of the batch
\* and not the ones stored before, rows of other match_ids are untouched, and
\* committing the same batch once more would leave the table as it is.
C11_UpsertLastWriteWins ==
    [][CommitsBatch =>
          /\ \A i \in 1..Len(txn) :
                /\ Cardinality(StoredUnder(match_table', txn[i].match_id)) = 1
                /\ \A r \in StoredUnder(match_table', txn[i].match_id) :
                      /\ r.gf = txn[i].gf
                      /\ r.possession = txn[i].possession
                      /\ r.scrape_date = txn[i].scrape_date
          /\ \A r \in match_table :
                (\A i \in 1..Len(txn) : txn[i].match_id # r.match_id)
                    => r \in match_table'
          /\ UpsertAll(match_table', txn) = match_table'
      ]_vars

\* a batch is about to be committed over a row that an earlier call stored
\* with other statistics
C11_Witness ==
    /\ st_pc = "writing"
    /\ Len(txn) = Len(match_data)
    /\ \E i \in 1..Len(txn) :
          \E r \in StoredUnder(match_table, txn[i].match_id) :
              /\ r.gf # txn[i].gf
              /\ r.scrape_date < txn[i].scrape_date

\* line 801 has just passed match_data to insert_matches
HandedOver == st_pc = "writing" /\ txn = <<>>

\* the loop of lines 753-798 has raised and the call returns 0
PreparationAborted == st_pc = "returned" /\ frame # <<>> /\ match_data = <<>>

IsComplete(row) == row.date # NaT /\ row.opponent # "" /\ row.team # ""

\* the rows of the frame that carry a date and both team names
CompleteRows == SelectSeq(frame, IsComplete)

\* every opponent of the frame was in table team when the scheduler started
OpponentsStored == \A i \in 1..Len(frame) : frame[i].opponent \in StoreTeams

\* C16: once the rows of a team are prepared (all opponents being stored
\* teams), what is handed to insert_matches is one tuple for each row of the
\* frame that has a date and both team names, in order, and nothing else: rows
\* lacking one of them are dropped and the other rows are still handed over.
C16_IncompleteRowsDroppedOnly ==
    ((HandedOver \/ PreparationAborted) /\ OpponentsStored) =>
        /\ Len(handed) = Len(CompleteRows)
        /\ \A i \in 1..Len(handed) :
              /\ handed[i] = MatchTuple(CompleteRows[i], st_team, st_now)
              /\ handed[i].date # NaT
              /\ handed[i].team # ""
              /\ handed[i].opponent # ""

\* C17: no two tuples handed to insert_matches carry the same match_id.
C17_NoDuplicateIdsHandedOver ==
    HandedOver =>
        \A i, j \in 1..Len(handed) :
            i # j => handed[i].match_id # handed[j].match_id

\* C18: a statistic whose cell is blank on the page is unknown (NULL) in the
\* tuple handed to insert_matches and in the row stored for it.
C18_BlankStatisticStaysUnknown ==
    /\ HandedOver =>
          \A i \in 1..Len(handed) :
              frame[i].cells.gf = NULL => handed[i].gf = NULL
    /\ (st_pc = "returned" /\ st_result > 0) =>
          \A i \in 1..Len(match_data) :
              frame[i].cells.gf = NULL =>
                  \A r \in StoredUnder(match_table, match_data[i].match_id) :
                      r.gf = NULL

\* C19: once a KeyboardInterrupt has been delivered no further match log is
\* requested; the step that ends the run leaves table match as it is, and
\* every step that changes table match stores the whole batch of the running
\* call.
C19_InterruptStopsFetchingKeepsBatchesWhole ==
    [][/\ interrupted => fetches' = fetches
       /\ st_pc' = "stopped" => match_table' = match_table
       /\ match_table' # match_table =>
             \A i \in 1..Len(match_data) :
                 \E r \in StoredUnder(match_table', match_data[i].match_id) :
                     r.scrape_date = match_data[i].scrape_date
      ]_vars

(***************************************************************************)
(* Outbound requests: the requests each entry point sends and the delays   *)
(* it sleeps between them                                                  *)
(***************************************************************************)

\* the entry points that send requests
Routines == {"date_range", "team_matches", "league_teams"}

\* the endpoints list of fetch_events_via_api
NumEndpoints == 4

\* what a remote source answers: a usable payload, a payload without the
\* data looked for, or a rejection (HTTP 403, challenge page)
Responses == {"ok", "empty", "forbidden"}

InitWire ==
    /\ InitSchedIdle
    /\ InitChainIdle
    /\ InitIdIdle
    /\ InitStoreIdle
    /\ routine \in Routines
    /\ rq_class \in FBrefClasses
    /\ rq_pc = "start"
    /\ rq_date = 0
    /\ endpoint = 0
    /\ waited = FALSE
    /\ contexts = 0
    /\ wire = <<>>

\* the request as it goes out: its target, the tier it belongs to (0 for a
\* request outside the tiers), whether a delay was slept since the last
\* request, the session it carries and the answer it gets
Request(to, tier, status) ==
    [to |-> to, tier |-> tier, paced |-> waited, context |-> contexts,
     status |-> status]

Send(to, tier, status) ==
    /\ wire' = Append(wire, Request(to, tier, status))
    /\ waited' = FALSE

\* the positions at which a delay is slept, and the position after it
AfterDelay ==
    [api_delay |-> "api_get", url_delay |-> "url_get",
     log_delay |-> "log_get"]

\* add_random_delay(2, 5) / FBrefScraper._add_delay
AddDelay ==
    /\ UNCHANGED <<schedVars, pauseVars, chainVars, idVars, runVars, storeVars>>
    /\ rq_pc \in DOMAIN AfterDelay
    /\ waited' = TRUE
    /\ rq_pc' = AfterDelay[rq_pc]
    /\ UNCHANGED <<routine, rq_class, rq_date, endpoint, contexts, wire>>

\* fetch_matches_for_date_range, lines 436-445: initialize_browser_session
\* opens the home page in a fresh browser and keeps its cookies (or logs the
\* exception), then the alternate source is constructed
InitializeBrowserSession ==
    /\ UNCHANGED <<schedVars, pauseVars, chainVars, idVars, runVars, storeVars>>
    /\ routine = "date_range"
    /\ rq_pc = "start"
    /\ \E status \in Responses :
          /\ Send("home_page", 0, status)
          /\ contexts' = IF status = "ok" THEN contexts + 1 ELSE contexts
    /\ IF ConstructorRaises(rq_class)
       THEN /\ rq_pc' = "raised"
            /\ UNCHANGED <<rq_date, endpoint>>
       ELSE /\ rq_pc' = "api_delay"
            /\ rq_date' = 1
            /\ endpoint' = 1
    /\ UNCHANGED <<routine, rq_class>>

\* fetch_events_via_api, lines 153-196: the request to one endpoint; a 403,
\* another status or a payload without events moves on to the next endpoint
ApiRequest ==
    /\ UNCHANGED <<schedVars, pauseVars, chainVars, idVars, runVars, storeVars>>
    /\ rq_pc = "api_get"
    /\ \E status \in Responses :
          /\ Send("api", 1, status)
          /\ IF status = "ok"
             THEN /\ rq_pc' = "next_date"
                  /\ endpoint' = endpoint
             ELSE IF endpoint < NumEndpoints
             THEN /\ rq_pc' = "api_delay"
                  /\ endpoint' = endpoint + 1
             ELSE /\ rq_pc' = "browser"
                  /\ endpoint' = endpoint
    /\ UNCHANGED <<routine, rq_class, rq_date, contexts>>

\* fetch_events_via_browser, lines 213-302: a fresh browser opens the page of
\* the date
BrowserRequest ==
    /\ UNCHANGED <<schedVars, pauseVars, chainVars, idVars, runVars, storeVars>>
    /\ rq_pc = "browser"
    /\ \E status \in Responses : Send("date_page", 2, status)
    /\ rq_pc' = "next_date"
    /\ UNCHANGED <<routine, rq_class, rq_date, endpoint, contexts>>

\* the for loop of lines 448-488 goes to the next date
NextDate ==
    /\ UNCHANGED <<schedVars, pauseVars, chainVars, idVars, runVars, storeVars>>
    /\ rq_pc = "next_date"
    /\ IF rq_date < NumDates
       THEN /\ rq_date' = rq_date + 1
            /\ endpoint' = 1
            /\ wire' = <<>>
            /\ rq_pc' = "api_delay"
       ELSE /\ rq_pc' = "done"
            /\ UNCHANGED <<rq_date, endpoint, wire>>
    /\ UNCHANGED <<routine, rq_class, waited, contexts>>

\* scrape_team_matches, line 513: get_team_url is entered
ScrapeTeamMatchesBegins ==
    /\ UNCHANGED <<schedVars, pauseVars, chainVars, idVars, runVars, storeVars>>
    /\ routine = "team_matches"
    /\ rq_pc = "start"
    /\ rq_pc' = "url_delay"
    /\ UNCHANGED <<routine, rq_class, rq_date, endpoint, waited, contexts, wire>>

\* get_team_url, lines 432-436 and scrape_team_matches 515-517: the league
\* page; without the team's URL an empty frame is returned
TeamUrlRequest ==
    /\ UNCHANGED <<schedVars, pauseVars, chainVars, idVars, runVars, storeVars>>
    /\ rq_pc = "url_get"
    /\ \E status \in Responses :
          /\ Send("league_page", 0, status)
          /\ rq_pc' = IF status = "ok" THEN "log_delay" ELSE "done"
    /\ UNCHANGED <<routine, rq_class, rq_date, endpoint, contexts>>

\* scrape_team_matches, lines 540-544: the match-log page
MatchLogRequest ==
    /\ UNCHANGED <<schedVars, pauseVars, chainVars, idVars, runVars, storeVars>>
    /\ rq_pc = "log_get"
    /\ \E status \in Responses : Send("match_log", 0, status)
    /\ rq_pc' = "done"
    /\ UNCHANGED <<routine, rq_class, rq_date, endpoint, contexts>>

\* FBrefDatabaseUpdater.__init__ line 62 and update_league_teams lines
\* 163-169: the league page is requested as soon as the URL is built
LeaguePageRequest ==
    /\ UNCHANGED <<schedVars, pauseVars, chainVars, idVars, runVars, storeVars>>
    /\ routine = "league_teams"
    /\ rq_pc = "start"
    /\ IF ConstructorRaises(rq_class)
       THEN /\ rq_pc' = "raised"
            /\ UNCHANGED <<wire, waited>>
       ELSE /\ \E status \in Responses : Send("league_page", 0, status)
            /\ rq_pc' = "done"
    /\ UNCHANGED <<routine, rq_class, rq_date, endpoint, contexts>>

NextWire ==
    \/ AddDelay
    \/ InitializeBrowserSession
    \/ ApiRequest
    \/ BrowserRequest
    \/ NextDate
    \/ ScrapeTeamMatchesBegins
    \/ TeamUrlRequest
    \/ MatchLogRequest
    \/ LeaguePageRequest

SpecWire == InitWire /\ [][NextWire]_vars

(***************************************************************************)
(* Properties of the requests (checked under SpecWire)                     *)
(***************************************************************************)

\* the request was rejected by the anti-bot defence at tier 1 or 2
Rejected(i) == wire[i].status = "forbidden" /\ wire[i].tier \in {1, 2}

\* the requests that repeat the tier of request i with a newer session
RetriesOf(i) ==
    {j \in 1..Len(wire) : /\ j > i
                          /\ wire[j].tier = wire[i].tier
                          /\ wire[j].context > wire[i].context}

C26_EveryRequestPaced ==
    \A i \in 1..Len(wire) : wire[i].paced

====